---- MODULE Spec2Model ----
(***************************************************************************)
(* Model of gmprocess.metrics.transform.integrate.Integrate.               *)
(*                                                                         *)
(* A caller owns one Stream object (a sequence of Trace objects) and       *)
(* constructs Integrate(source, damping, period, times) on it, possibly    *)
(* several times.  The constructor runs the base constructor and then      *)
(* get_integral(), which walks the traces, calls trace.integrate() on each *)
(* one, retags the units and wraps data and header in a new StationTrace.  *)
(*                                                                         *)
(* Numbers.  Samples are IEEE floats; the model keeps finite values as     *)
(* exact fixed-point integers (a count of 1/Scale) next to NaN, +Inf and   *)
(* -Inf, with the IEEE rules for sums of non-finite values.                *)
(*                                                                         *)
(* Objects.  `source` is the value currently held by the caller's Stream   *)
(* object.  Trace.integrate() works in place and returns self, so the      *)
(* name integrated_trace of the code is the caller's Trace object; what    *)
(* the code writes through it is written to `source`.                      *)
(***************************************************************************)
EXTENDS Integers, Sequences, FiniteSets, TLC

\* ------------------------------------------------------------- bounds
MaxTraces == 2      \* traces in the caller's Stream: 0..MaxTraces
MaxLen == 3         \* samples per trace: 1..MaxLen
MaxCalls == 2       \* Integrate(...) constructions on the same Stream

RECURSIVE Pow2(_)
Pow2(n) == IF n = 0 THEN 1 ELSE 2 * Pow2(n - 1)

\* One sample unit (1.0) in fixed point.  Every integration halves once, so
\* MaxCalls + 1 binary digits keep every value of every run exact.
Scale == Pow2(MaxCalls + 1)

\* ------------------------------------------------------------- floats
Fin(v) == [k |-> "fin", v |-> v]
NaN == [k |-> "nan", v |-> 0]
PosInf == [k |-> "inf", v |-> 1]
NegInf == [k |-> "inf", v |-> -1]

IsFinite(x) == x.k = "fin"

\* x + y
FAdd(x, y) ==
    IF x.k = "nan" \/ y.k = "nan" THEN NaN
    ELSE IF x.k = "inf" /\ y.k = "inf" THEN (IF x.v = y.v THEN x ELSE NaN)
    ELSE IF x.k = "inf" THEN x
    ELSE IF y.k = "inf" THEN y
    ELSE Fin(x.v + y.v)

\* d * x for a positive sampling interval d
FScale(d, x) == IF x.k = "fin" THEN Fin(d * x.v) ELSE x

\* x / 2.0
FHalf(x) == IF x.k = "fin" THEN Fin(x.v \div 2) ELSE x

\* ------------------------------------------------------------- traces
None == "None"

VelocityTag == "veloc"

\* stats['units'] values a caller's trace may carry.
Units == {"acc", VelocityTag, "disp"}

\* Sampling intervals (stats.delta), in seconds.
Deltas == {1, 2}

\* Station identities, as read by tests/gmprocess/io/fdsn/fdsn_test.py.
Stations ==
    { [network |-> "BK", station |-> "CMB", starttime |-> 0],
      [network |-> "TA", station |-> "M04C", starttime |-> 60] }

\* Shapes of the recorded signal a trace may hold.
Patterns == {"zero", "ramp", "alt", "nan", "inf"}

\* The samples of a trace of n >= 1 samples with the given shape.
Signal(pattern, n) ==
    [j \in 1..n |->
        CASE pattern = "zero" -> Fin(0)
          [] pattern = "ramp" -> Fin((j - 1) * Scale)
          [] pattern = "alt" -> Fin(IF j % 2 = 1 THEN Scale ELSE -Scale)
          [] pattern = "nan" -> IF j = n THEN NaN ELSE Fin(j * Scale)
          [] pattern = "inf" -> IF j = 1 THEN PosInf
                                ELSE IF j = n THEN NegInf ELSE Fin(Scale)]

\* A Trace object: its samples and its header (stats).
MkTrace(st, i, units, delta, pattern, n) ==
    [data |-> Signal(pattern, n),
     stats |-> [network |-> st.network, station |-> st.station,
                channel |-> <<"HN", i>>, starttime |-> st.starttime,
                delta |-> delta, units |-> units]]

\* The identifying fields of a header.
StationMetadata(stats) ==
    [network |-> stats.network, station |-> stats.station,
     channel |-> stats.channel, starttime |-> stats.starttime]

\* The Streams a caller may hold: 0..MaxTraces traces of one station, one
\* sampling interval, one units tag and one length, each with its own signal.
SourceStreams ==
    UNION { { [i \in 1..n |-> MkTrace(st, i, u, d, pat[i], len)] :
                st \in Stations, u \in Units, d \in Deltas,
                len \in 1..MaxLen, pat \in [1..n -> Patterns] } :
            n \in 0..MaxTraces }

\* Caller-supplied (damping, period, times).
Params ==
    { <<None, None, None>>, <<"0.05", "0.0", "t">> }

\* ------------------------------------------------------------- program
\* Mutant of cumtrapz: the rectangle rule, dt * in[j], in place of the
\* trapezoid.
RECURSIVE cumrect(_, _)
cumrect(data, dx) ==
    IF Len(data) <= 1 THEN <<Fin(0)>>
    ELSE LET n == Len(data)
             head == cumrect(SubSeq(data, 1, n - 1), dx)
         IN Append(head, FAdd(head[n - 1], FScale(dx, data[n])))

\* trace.integrate() with its default method: the cumulative trapezoidal
\* rule over the sampling interval, a leading zero keeping the length.
RECURSIVE cumtrapz(_, _)
cumtrapz(data, dx) ==
    IF Len(data) <= 1 THEN <<Fin(0)>>
    ELSE LET n == Len(data)
             head == cumtrapz(SubSeq(data, 1, n - 1), dx)
         IN Append(head,
                   FAdd(head[n - 1],
                        FHalf(FScale(dx, FAdd(data[n], data[n - 1])))))

\* trace.integrate(): replaces the data of the trace it is called on and
\* returns that same trace.
integrate(trace) ==
    [trace EXCEPT !.data = cumtrapz(trace.data, trace.stats.delta)]

\* Mutant of set_units: the tag is rewritten for acceleration input only.
set_units_checked(trace) ==
    IF trace.stats.units = "acc"
    THEN [trace EXCEPT !.stats.units = VelocityTag]
    ELSE trace

\* integrated_trace.stats['units'] = 'veloc'
set_units(trace) ==
    [trace EXCEPT !.stats.units = VelocityTag]

\* StationTrace(data=..., header=...): a new trace holding the data it is
\* given and its own copy of the header.
StationTrace(data, header) ==
    [data |-> data, stats |-> header]

\* Mutant of append: the new trace is put in front.
append_front(stream, strace) ==
    <<strace>> \o stream

\* stream.append(strace)
append(stream, strace) ==
    Append(stream, strace)

\* Mutant of loop_body: the new trace gets a header made from scratch, with
\* the sampling interval and the units only.
loop_body_fresh_header(trace) ==
    LET integrated_trace == set_units(integrate(trace))
    IN [trace |-> integrated_trace,
        strace |-> StationTrace(integrated_trace.data,
                      [integrated_trace.stats EXCEPT !.network = "",
                          !.station = "", !.starttime = 0])]

\* One turn of the loop of get_integral on the caller's trace object:
\* `trace` is what that object holds afterwards (integrate() returned the
\* object itself, and the units are set through that reference), `strace`
\* is the new trace appended to the result.
loop_body(trace) ==
    LET integrated_trace == set_units(integrate(trace))
    IN [trace |-> integrated_trace,
        strace |-> StationTrace(integrated_trace.data, integrated_trace.stats)]

\* get_integral(): the loop over self.transform_data, from trace i on, with
\* the result stream built so far.  Returns the result stream and what the
\* traces of transform_data hold afterwards.
RECURSIVE get_integral_from(_, _, _)
get_integral_from(transform_data, i, stream) ==
    IF i > Len(transform_data)
    THEN [stream |-> stream, transform_data |-> transform_data]
    ELSE LET step == loop_body(transform_data[i])
         IN get_integral_from([transform_data EXCEPT ![i] = step.trace],
                              i + 1, append(stream, step.strace))

get_integral(transform_data) ==
    get_integral_from(transform_data, 1, <<>>)

\* Mutant of Transform_init: any source is accepted.
Transform_init_unchecked(transform_data, damping, period, times) ==
    [status |-> "ok", damping |-> damping, period |-> period, times |-> times]

\* Transform.__init__(transform_data, damping, period, times): requires a
\* non-empty source and keeps its arguments.
Transform_init(transform_data, damping, period, times) ==
    [status |-> IF Len(transform_data) = 0 THEN "EmptyInput" ELSE "ok",
     damping |-> damping, period |-> period, times |-> times]

\* Mutant of Integrate_init: the caller's period is validated before the
\* integration.
Integrate_init_validating(transform_data, damping, period, times) ==
    LET got == get_integral(transform_data)
    IN IF Len(transform_data) = 0
       THEN [status |-> "EmptyInput", damping |-> None, period |-> None,
             times |-> None, result |-> <<>>,
             transform_data |-> transform_data]
       ELSE IF period = "0.0"
       THEN [status |-> "InvalidParameter", damping |-> None,
             period |-> None, times |-> None, result |-> <<>>,
             transform_data |-> transform_data]
       ELSE [status |-> "ok", damping |-> None, period |-> None,
             times |-> None, result |-> got.stream,
             transform_data |-> got.transform_data]

\* Integrate.__init__(transform_data, damping, period, times): the outcome
\* of the construction (status), the fields of the object when it exists,
\* and what the caller's Stream holds afterwards.
Integrate_init(transform_data, damping, period, times) ==
    LET base == Transform_init(transform_data, None, None, None)
        got == get_integral(transform_data)
    IN IF base.status # "ok"
       THEN [status |-> base.status, damping |-> None, period |-> None,
             times |-> None, result |-> <<>>,
             transform_data |-> transform_data]
       ELSE [status |-> "ok", damping |-> base.damping,
             period |-> base.period, times |-> base.times,
             result |-> got.stream, transform_data |-> got.transform_data]

\* ------------------------------------------------------------- state
VARIABLES
    source,     \* what the caller's Stream object holds now
    calls       \* the constructions made so far, oldest first

vars == <<source, calls>>

Init ==
    /\ source \in SourceStreams
    /\ calls = <<>>

\* The caller constructs Integrate(source, damping, period, times).  A call
\* record keeps the arguments, what the Stream held when the call was made
\* (input), the outcome and the fields of the constructed object.
Construct(damping, period, times) ==
    /\ Len(calls) < MaxCalls
    /\ LET obj == Integrate_init(source, damping, period, times)
       IN /\ source' = obj.transform_data
          /\ calls' = Append(calls,
                [args |-> <<damping, period, times>>,
                 input |-> source,
                 status |-> obj.status,
                 damping |-> obj.damping,
                 period |-> obj.period,
                 times |-> obj.times,
                 result |-> obj.result])

Next ==
    \E p \in Params : Construct(p[1], p[2], p[3])

Spec == Init /\ [][Next]_vars

\* ------------------------------------------------------------- properties
CallIds == 1..Len(calls)

OkCalls == {c \in CallIds : calls[c].status = "ok"}

\* What the caller's Stream holds right after call c.
After(c) == IF c < Len(calls) THEN calls[c + 1].input ELSE source

HasNonFinite(trace) == \E j \in 1..Len(trace.data) : ~IsFinite(trace.data[j])

AllZero(data) == \A j \in 1..Len(data) : data[j] = Fin(0)

\* C1: constructing Integrate(source) leaves every trace of the source with
\* the samples and the units tag it had before the call.
C1_InputNeverModified ==
    \A c \in CallIds :
        /\ Len(After(c)) = Len(calls[c].input)
        /\ \A i \in 1..Len(calls[c].input) :
              /\ After(c)[i].data = calls[c].input[i].data
              /\ After(c)[i].stats.units = calls[c].input[i].stats.units

\* C2: a successful call on n traces yields n traces, and the i-th result
\* trace is the one derived from the i-th input trace.
C2_OneOutputPerInputInOrder ==
    \A c \in OkCalls :
        /\ Len(calls[c].result) = Len(calls[c].input)
        /\ \A i \in 1..Len(calls[c].input) :
              /\ calls[c].result[i].stats.channel
                    = calls[c].input[i].stats.channel
              /\ calls[c].result[i].data
                    = cumtrapz(calls[c].input[i].data,
                               calls[c].input[i].stats.delta)

C2_Witness ==
    \E c \in OkCalls :
        /\ Len(calls[c].input) = MaxTraces
        /\ Len(calls[c].result) = MaxTraces
        /\ calls[c].result[1].data # calls[c].result[MaxTraces].data

\* C3: every result trace carries the velocity tag whatever tag the input
\* trace had, and the input units never make the call fail.
C3_UnitsAlwaysVelocity ==
    \A c \in CallIds :
        /\ Len(calls[c].input) > 0 => calls[c].status = "ok"
        /\ \A i \in 1..Len(calls[c].result) :
              calls[c].result[i].stats.units = VelocityTag

C3_Witness ==
    \E c \in OkCalls :
        /\ calls[c].input[1].stats.units = "disp"
        /\ calls[c].result[1].stats.units = VelocityTag

ExampleIn == [j \in 1..5 |-> Fin(<<0, 2, 4, 2, 0>>[j] * (Scale \div 2))]

ExampleOut == [j \in 1..5 |-> Fin(<<0, 1, 4, 7, 8>>[j] * (Scale \div 2))]

\* C4: the output samples are the running trapezoidal integral of the input
\* samples: same length, 0 first, out[j] = out[j-1] + dt*(in[j-1]+in[j])/2;
\* [0,1,2,1,0] with dt = 1 gives [0,0.5,2,3.5,4]; zeros give zeros.
C4_CumulativeTrapezoid ==
    /\ cumtrapz(ExampleIn, 1) = ExampleOut
    /\ \A c \in OkCalls : \A i \in 1..Len(calls[c].input) :
          LET in == calls[c].input[i].data
              dt == calls[c].input[i].stats.delta
              out == calls[c].result[i].data
          IN /\ Len(out) = Len(in)
             /\ out[1] = Fin(0)
             /\ \A j \in 2..Len(in) :
                   out[j] = FAdd(out[j - 1],
                                 FHalf(FScale(dt, FAdd(in[j - 1], in[j]))))
             /\ AllZero(in) => AllZero(out)

C4_Witness ==
    \E c \in OkCalls : \E i \in 1..Len(calls[c].input) :
        /\ calls[c].input[i].data = <<Fin(0), Fin(Scale), Fin(2 * Scale)>>
        /\ calls[c].input[i].stats.delta = 1
        /\ calls[c].result[i].data
              = <<Fin(0), Fin(Scale \div 2), Fin(2 * Scale)>>

\* C5: the station metadata of each result trace equals that of its input
\* trace, and no header field other than the units tag differs.
C5_StationMetadataPreserved ==
    \A c \in OkCalls : \A i \in 1..Len(calls[c].input) :
        /\ StationMetadata(calls[c].result[i].stats)
              = StationMetadata(calls[c].input[i].stats)
        /\ [calls[c].result[i].stats
              EXCEPT !.units = calls[c].input[i].stats.units]
              = calls[c].input[i].stats

C5_Witness ==
    \E c \in OkCalls :
        /\ calls[c].input[1].stats.network = "TA"
        /\ calls[c].input[1].stats.units = "acc"
        /\ calls[c].result[1].stats.station = "M04C"
        /\ calls[c].result[1].stats.starttime = 60
        /\ calls[c].result[1].stats.units # "acc"

\* C6: a call on a Stream with zero traces fails with EmptyInput and never
\* completes with an empty result Stream.
C6_EmptyStreamFails ==
    \A c \in CallIds :
        /\ Len(calls[c].input) = 0 => calls[c].status = "EmptyInput"
        /\ calls[c].status = "ok" => Len(calls[c].result) > 0

C6_Witness ==
    \E c \in CallIds :
        /\ Len(calls[c].input) = 0
        /\ calls[c].status = "EmptyInput"

\* C7: a call on a Stream holding a non-finite sample fails with
\* InvalidData, and no result ever holds a non-finite value.
C7_NonFiniteRejected ==
    \A c \in CallIds :
        /\ (\E i \in 1..Len(calls[c].input) : HasNonFinite(calls[c].input[i]))
              => calls[c].status = "InvalidData"
        /\ \A i \in 1..Len(calls[c].result) : ~HasNonFinite(calls[c].result[i])

\* C8: a call is all-or-nothing: when the integration of some trace fails
\* (a trace with a non-finite sample), the call fails, stores no result and
\* leaves the caller's Stream as it was.
C8_AllOrNothing ==
    \A c \in CallIds :
        (\E i \in 1..Len(calls[c].input) : HasNonFinite(calls[c].input[i]))
            => /\ calls[c].status # "ok"
               /\ calls[c].result = <<>>
               /\ After(c) = calls[c].input

\* C9: every call on the same source Stream yields the result of the first.
C9_LaterCallsEqualFirst ==
    \A c \in CallIds :
        /\ calls[c].status = calls[1].status
        /\ calls[c].result = calls[1].result

\* C10: the result depends only on the source: calls on equal sources that
\* differ in damping, period and times give equal results, the same as with
\* all three absent, and none of them raises a parameter error.
C10_ParametersIgnored ==
    /\ \A c \in CallIds :
          LET plain == Integrate_init(calls[c].input, None, None, None)
          IN /\ calls[c].status = plain.status
             /\ calls[c].result = plain.result
             /\ calls[c].status \notin {"MissingParameter", "InvalidParameter"}
    /\ \A c, d \in CallIds :
          calls[c].input = calls[d].input
              => /\ calls[c].status = calls[d].status
                 /\ calls[c].result = calls[d].result

C10_Witness ==
    /\ \E c \in OkCalls : calls[c].args[2] = "0.0" /\ ~AllZero(calls[c].result[1].data)
    /\ \E c, d \in OkCalls :
          /\ calls[c].input = calls[d].input
          /\ calls[c].args # calls[d].args
          /\ calls[c].result = calls[d].result

====
